---------------------------- MODULE Spec2Model ----------------------------
(***************************************************************************)
(* A model of the choko request router (src/src/lib.rs): pattern           *)
(* compilation, path matching, route registration and the dispatch of     *)
(* inbound API Gateway proxy events to route handlers.                     *)
(*                                                                         *)
(* Text that the code inspects character by character (patterns, paths,    *)
(* method names, header names) is a sequence of one-character strings;     *)
(* text that the code only builds and hands on (JSON bodies, messages) is  *)
(* a TLA+ string.                                                          *)
(***************************************************************************)
EXTENDS Integers, Sequences, FiniteSets, TLC

VARIABLES
    routes,        \* Choko.routes: the Vec<Route>, in registration order
    phase,         \* "setup" while the caller owns the Choko, "running" once run(self) took it
    pc,            \* per dispatch: "idle", "scanning", "invoking", "done"
    event,         \* per dispatch: the ApiGatewayProxyRequest being handled
    idx,           \* per dispatch: position of `for route in &self.routes`
    path_matched,  \* per dispatch: the local flag of dispatch
    request,       \* per dispatch: the Request handed to the handler
    calls,         \* per dispatch: indices of the routes whose handler was invoked
    out,           \* per dispatch: the values dispatch returned
    cli,           \* the choko command line process: position, locals, what it printed, exit status
    issued,        \* the steps and external commands the process has run, with their outcomes
    cloud,         \* the AWS account the commands act on
    deploys        \* the number of times the command line was started

vars == <<routes, phase, pc, event, idx, path_matched, request, calls, out,
          cli, issued, cloud, deploys>>

\* The state of the library and the state of the command line tool.
appVars == <<routes, phase, pc, event, idx, path_matched, request, calls, out>>
cliVars == <<cli, issued, cloud, deploys>>

\* ------------------------------------------------------------------ bounds

\* The largest number of routes registered before run.
MaxRoutes == 2

\* The largest number of times the command line is started.
MaxDeploys == 2

\* ------------------------------------------------------------ Option, maps

None == [some |-> FALSE]
Some(v) == [some |-> TRUE, val |-> v]

\* HashMap::new()
EmptyMap == [k \in {} |-> <<>>]

\* HashMap::insert: a later insert under the same key replaces the value.
Insert(m, k, v) == [x \in (DOMAIN m) \cup {k} |-> IF x = k THEN v ELSE m[x]]

\* ------------------------------------------------------------------- text

RECURSIVE Cat(_)
\* The string spelled by a sequence of characters.
Cat(cs) == IF cs = <<>> THEN "" ELSE Head(cs) \o Cat(Tail(cs))

\* str::chars: the characters of a text, in order.
Chars(s) == [i \in 1..Len(s) |-> SubSeq(s, i, i)]

\* char::to_uppercase on the letters the model's method names use.
UpperChar(c) ==
    CASE c = "g" -> "G" [] c = "e" -> "E" [] c = "t" -> "T"
      [] c = "p" -> "P" [] c = "o" -> "O" [] c = "s" -> "S"
      [] OTHER -> c

\* str::to_uppercase
to_uppercase(s) == [i \in 1..Len(s) |-> UpperChar(s[i])]

RECURSIVE TrimStart(_, _)
TrimStart(s, c) ==
    IF s # <<>> /\ Head(s) = c THEN TrimStart(Tail(s), c) ELSE s

RECURSIVE TrimEnd(_, _)
TrimEnd(s, c) ==
    IF s # <<>> /\ s[Len(s)] = c THEN TrimEnd(SubSeq(s, 1, Len(s) - 1), c) ELSE s

\* str::trim_matches(c)
trim_matches(s, c) == TrimEnd(TrimStart(s, c), c)

RECURSIVE split(_, _)
\* str::split(c): the pieces between occurrences of c; the empty text gives
\* one empty piece.
split(s, c) ==
    IF \E i \in 1..Len(s) : s[i] = c
    THEN LET i == CHOOSE j \in 1..Len(s) :
                      s[j] = c /\ \A k \in 1..(j - 1) : s[k] # c
         IN  <<SubSeq(s, 1, i - 1)>> \o split(SubSeq(s, i + 1, Len(s)), c)
    ELSE <<s>>

\* .trim_matches('/').split('/').filter(|s| !s.is_empty())
Components(s) ==
    SelectSeq(split(trim_matches(s, "/"), "/"), LAMBDA p : p # <<>>)

\* --------------------------------------------------------------- segments

Literal(s) == [kind |-> "Literal", s |-> s]
Param(s) == [kind |-> "Param", s |-> s]

\* The closure of compile_path's map: one component to one Segment.
CompileComponent(s) ==
    IF Head(s) = "{" /\ s[Len(s)] = "}"
    THEN Param(SubSeq(s, 2, Len(s) - 1))
    ELSE Literal(s)

\* A compilation that keeps the empty components as literals.
compile_path_KeepEmpty(pattern) ==
    LET parts == split(pattern, "/")
    IN  [i \in 1..Len(parts) |->
            IF parts[i] = <<>> THEN Literal(<<>>) ELSE CompileComponent(parts[i])]

compile_path(pattern) ==
    LET parts == Components(pattern)
    IN  [i \in 1..Len(parts) |-> CompileComponent(parts[i])]

RECURSIVE MatchFrom(_, _, _, _)
\* The loop of match_path over segments zipped with path_parts, from
\* position i with the parameters captured so far.
MatchFrom(segments, path_parts, i, params) ==
    IF i > Len(segments) THEN Some(params)
    ELSE IF segments[i].kind = "Literal"
         THEN IF segments[i].s # path_parts[i] THEN None
              ELSE MatchFrom(segments, path_parts, i + 1, params)
         ELSE MatchFrom(segments, path_parts, i + 1,
                        Insert(params, segments[i].s, path_parts[i]))

RECURSIVE ZipFrom(_, _, _, _)
\* The same loop, stopping where the shorter of the two sequences ends.
ZipFrom(segments, path_parts, i, params) ==
    IF i > Len(segments) \/ i > Len(path_parts) THEN Some(params)
    ELSE IF segments[i].kind = "Literal"
         THEN IF segments[i].s # path_parts[i] THEN None
              ELSE ZipFrom(segments, path_parts, i + 1, params)
         ELSE ZipFrom(segments, path_parts, i + 1,
                      Insert(params, segments[i].s, path_parts[i]))

\* A matcher that does not compare the lengths first.
match_path_Zip(segments, path) == ZipFrom(segments, Components(path), 1, EmptyMap)

\* A matcher that keeps the empty components of the inbound path.
match_path_NoFilter(segments, path) ==
    LET path_parts == split(trim_matches(path, "/"), "/")
    IN  IF segments = <<>> /\ path_parts = <<>> THEN Some(EmptyMap)
        ELSE IF Len(segments) # Len(path_parts) THEN None
        ELSE MatchFrom(segments, path_parts, 1, EmptyMap)

match_path(segments, path) ==
    LET path_parts == Components(path)
    IN  IF segments = <<>> /\ path_parts = <<>> THEN Some(EmptyMap)
        ELSE IF Len(segments) # Len(path_parts) THEN None
        ELSE MatchFrom(segments, path_parts, 1, EmptyMap)

\* ------------------------------------------------------------------- JSON

\* serde_json::Value, as far as the model builds it.
JNull == [t |-> "Null"]
JString(s) == [t |-> "String", s |-> s]
\* An object's members as a sequence of <<key, value>> in key order.
JObject(members) == [t |-> "Object", m |-> members]

RECURSIVE to_string(_)
RECURSIVE MembersText(_, _)
\* Value::to_string: compact JSON text (the model's texts need no escapes).
to_string(v) ==
    CASE v.t = "Null" -> "null"
      [] v.t = "String" -> "\"" \o v.s \o "\""
      [] v.t = "Object" -> "{" \o MembersText(v.m, 1) \o "}"

MembersText(m, i) ==
    IF i > Len(m) THEN ""
    ELSE "\"" \o m[i][1] \o "\":" \o to_string(m[i][2])
         \o (IF i < Len(m) THEN "," ELSE "") \o MembersText(m, i + 1)

\* The JSON documents an inbound body of the model can spell.
JsonDocs == { JObject(<< <<"name", JString("test-item")>> >>), JNull, JString("hi") }

\* A parser that takes a text it cannot read for a JSON string.
from_str_Lenient(s) ==
    IF \E v \in JsonDocs : to_string(v) = s
    THEN Some(CHOOSE v \in JsonDocs : to_string(v) = s)
    ELSE Some(JString(s))

\* serde_json::from_str(s).ok(): the document that s spells, if s spells one.
from_str(s) ==
    IF \E v \in JsonDocs : to_string(v) = s
    THEN Some(CHOOSE v \in JsonDocs : to_string(v) = s)
    ELSE None

\* ------------------------------------------------------- Response builder

\* Response::json
Response_json(body) == [status_code |-> 200, body |-> body, headers |-> EmptyMap]

\* Response::with_status
with_status(resp, code) == [resp EXCEPT !.status_code = code]

\* Response::with_header
with_header(resp, key, value) ==
    [resp EXCEPT !.headers = Insert(resp.headers, key, value)]

\* Result<Response, Error>
Ok(v) == [ok |-> TRUE, val |-> v]
Err(e) == [ok |-> FALSE, err |-> e]

\* ---------------------------------------------------------------- headers

\* http::header::CONTENT_TYPE
CONTENT_TYPE == <<"c","o","n","t","e","n","t","-","t","y","p","e">>

\* HeaderValue::from_static("application/json")
APPLICATION_JSON ==
    <<"a","p","p","l","i","c","a","t","i","o","n","/","j","s","o","n">>

\* The characters a header name may hold, lower case and upper case.
LowerNameChars ==
    {"a","b","c","d","e","f","g","h","i","j","k","l","m","n","o","p","q","r","s","t",
     "u","v","w","x","y","z","0","1","2","3","4","5","6","7","8","9","-","_","."}
UpperNameChars == {"X","I","D","C","T"}

\* http normalizes a header name to lower case.
LowerChar(c) ==
    CASE c = "X" -> "x" [] c = "I" -> "i" [] c = "D" -> "d"
      [] c = "C" -> "c" [] c = "T" -> "t"
      [] OTHER -> c

\* HeaderName::from_bytes: Ok(lower-cased name) for a non-empty token.
HeaderName_from_bytes(k) ==
    IF k # <<>> /\ \A i \in 1..Len(k) : k[i] \in LowerNameChars \cup UpperNameChars
    THEN Some([i \in 1..Len(k) |-> LowerChar(k[i])])
    ELSE None

\* HeaderValue::from_str: Ok for visible ASCII.
HeaderValue_from_str(v) ==
    IF \A i \in 1..Len(v) :
           v[i] \in LowerNameChars \cup UpperNameChars \cup {"/", " ", ";", "="}
    THEN Some(v)
    ELSE None

RECURSIVE InsertValid_StopAtBad(_, _, _, _)
\* A loop that ends at the first header that is not valid.
InsertValid_StopAtBad(headers, from, order, i) ==
    IF i > Len(order) THEN headers
    ELSE LET k == order[i]
             name == HeaderName_from_bytes(k)
             val == HeaderValue_from_str(from[k])
         IN  IF name.some /\ val.some
             THEN InsertValid_StopAtBad(Insert(headers, name.val, val.val), from, order, i + 1)
             ELSE headers

RECURSIVE InsertValid(_, _, _, _)
\* The loop of build_apigw_response over resp.headers, visited in `order`.
InsertValid(headers, from, order, i) ==
    IF i > Len(order) THEN headers
    ELSE LET k == order[i]
             name == HeaderName_from_bytes(k)
             val == HeaderValue_from_str(from[k])
         IN  InsertValid(IF name.some /\ val.some
                         THEN Insert(headers, name.val, val.val)
                         ELSE headers,
                         from, order, i + 1)

\* The orders in which a HashMap with key set S may be iterated.
Orders(S) ==
    { o \in [1..Cardinality(S) -> S] : \A i, j \in DOMAIN o : i # j => o[i] # o[j] }

\* Body::Text
Text(s) == [kind |-> "Text", s |-> s]

build_apigw_response(resp, order) ==
    [status_code |-> resp.status_code,
     headers |-> InsertValid(Insert(EmptyMap, CONTENT_TYPE, APPLICATION_JSON),
                             resp.headers, order, 1),
     body |-> Some(Text(to_string(resp.body)))]

\* An error answer whose body is the bare message.
error_response_PlainText(status_code, message) ==
    [status_code |-> status_code,
     headers |-> Insert(EmptyMap, CONTENT_TYPE, APPLICATION_JSON),
     body |-> Some(Text(message))]

error_response(status_code, message) ==
    [status_code |-> status_code,
     headers |-> Insert(EmptyMap, CONTENT_TYPE, APPLICATION_JSON),
     body |-> Some(Text(to_string(JObject(<< <<"error", JString(message)>> >>))))]

\* ---------------------------------------------------------------- request

build_request(ev, path_params) ==
    [path_params |-> path_params,
     query_params |-> ev.query_string_parameters,
     headers |-> ev.headers,
     body |-> ev.body,
     json_body |-> IF ev.body.some THEN from_str(ev.body.val) ELSE None]

\* --------------------------------------------------------------- handlers

\* The route handlers an application registers. "echo" answers with the
\* captured parameter `a` (the handler of tests::dispatch_extracts_path_params);
\* "fail" reports a failure (the handler of
\* tests::dispatch_returns_500_on_handler_error).
Handlers == {"echo", "fail"}

\* With them "tagged", which answers with two custom headers, X-ID and x-id
\* (the handler of tests::dispatch_custom_response_headers, with a second
\* with_header call).
ConcHandlers == Handlers \cup {"tagged"}

\* Handlers that answer with an error status of their own: "missing" with
\* 404 {"error": "Not Found"} (Response::json(..).with_status(404), as in
\* tests::response_with_status), "refuse" with 405 {"error": "Method Not
\* Allowed"}.
OwnStatusHandlers == {"echo", "missing", "refuse"}

\* Handlers that set a status or headers of their own: "received" answers
\* 201 with the name found in the JSON body (the handler of
\* tests::dispatch_with_json_body), "traced" adds x-request-id: abc-123 (the
\* handler of tests::dispatch_custom_response_headers), "typed" sets
\* Content-Type: text/plain, "badname" adds a header whose name holds a
\* space next to x-ok: yes, "badvalue" one whose value holds a line feed
\* next to x-ok: yes, "badtagged" a header with a bad name next to X-ID and
\* x-id.
HeaderHandlers ==
    {"received", "traced", "typed", "badname", "badvalue", "tagged", "badtagged"}

\* Value::get(key) on an object, then as_str: the text under key, if any.
GetStr(v, key) ==
    IF v.t = "Object" /\ \E i \in 1..Len(v.m) : v.m[i][1] = key /\ v.m[i][2].t = "String"
    THEN Some((v.m[CHOOSE i \in 1..Len(v.m) : v.m[i][1] = key][2]).s)
    ELSE None

\* The description the failing handler gives.
FailureText == "boom"

\* (route.handler)(request).await: the handlers are deterministic.
Invoke(handler, req) ==
    IF handler = "echo"
    THEN LET uid == IF <<"a">> \in DOMAIN req.path_params
                    THEN req.path_params[<<"a">>] ELSE <<>>
         IN  Ok(Response_json(JObject(<< <<"a", JString(Cat(uid))>> >>)))
    ELSE IF handler = "missing"
    THEN Ok(with_status(Response_json(JObject(<< <<"error", JString("Not Found")>> >>)), 404))
    ELSE IF handler = "refuse"
    THEN Ok(with_status(
                Response_json(JObject(<< <<"error", JString("Method Not Allowed")>> >>)), 405))
    ELSE IF handler = "received"
    THEN LET found == IF req.json_body.some THEN GetStr(req.json_body.val, "name") ELSE None
             name == IF found.some THEN found.val ELSE "unknown"
         IN  Ok(with_status(Response_json(JObject(<< <<"received", JString(name)>> >>)), 201))
    ELSE IF handler = "traced"
    THEN Ok(with_header(Response_json(JObject(<<>>)), Chars("x-request-id"), Chars("abc-123")))
    ELSE IF handler = "typed"
    THEN Ok(with_header(Response_json(JObject(<<>>)), Chars("Content-Type"), Chars("text/plain")))
    ELSE IF handler = "badname"
    THEN Ok(with_header(with_header(Response_json(JObject(<<>>)),
                                    Chars("bad name"), Chars("1")),
                        Chars("x-ok"), Chars("yes")))
    ELSE IF handler = "badvalue"
    THEN Ok(with_header(with_header(Response_json(JObject(<<>>)),
                                    Chars("x-note"), <<"a", "\n", "b">>),
                        Chars("x-ok"), Chars("yes")))
    ELSE IF handler = "badtagged"
    THEN Ok(with_header(with_header(with_header(Response_json(JObject(<<>>)),
                                                Chars("bad name"), Chars("1")),
                                    Chars("X-ID"), Chars("1")),
                        Chars("x-id"), Chars("2")))
    ELSE IF handler = "tagged"
    THEN Ok(with_header(with_header(Response_json(JObject(<<>>)),
                                    <<"X","-","I","D">>, <<"1">>),
                        <<"x","-","i","d">>, <<"2">>))
    ELSE Err(FailureText)

\* ------------------------------------------------------------------ inputs

\* Patterns an application registers: /x, /u/{a}, /u/m, /{} and /{a}/{a}.
Patterns ==
    { <<"/","x">>,
      <<"/","u","/","{","a","}">>,
      <<"/","u","/","m">>,
      <<"/","{","}">>,
      <<"/","{","a","}","/","{","a","}">> }

\* The patterns, method lists and events of the runs with several
\* dispatches in flight.
ConcPatterns == { <<"/","x">>, <<"/","u","/","{","a","}">> }
ConcMethodLists == { << <<"G","E","T">> >> }

\* Method lists given to route: ["GET"], ["post"].
MethodLists ==
    { << <<"G","E","T">> >>,
      << <<"p","o","s","t">> >> }

\* Inbound events: method get or POST; path /x, /u/m, /y or absent; no body.
EventMethods == { <<"g","e","t">>, <<"P","O","S","T">> }
EventPaths ==
    { Some(<<"/","x">>), Some(<<"/","u","/","m">>), Some(<<"/","y">>), None }

Events ==
    { [http_method |-> m, path |-> p, query_string_parameters |-> EmptyMap,
       headers |-> EmptyMap, body |-> None] : m \in EventMethods, p \in EventPaths }

ConcEvents == { ev \in Events : ev.path # Some(<<"/","y">>) }

\* The inputs of the runs about the letter case of method names: one
\* pattern, method lists ["get"], ["Post"] and ["get", "POST"], and inbound
\* methods in several spellings.
CasePatterns == { Chars("/x") }
CaseMethodLists ==
    { << Chars("get") >>, << Chars("Post") >>, << Chars("get"), Chars("POST") >> }
CaseEvents ==
    { [http_method |-> m, path |-> p, query_string_parameters |-> EmptyMap,
       headers |-> EmptyMap, body |-> None] :
        m \in { Chars("GET"), Chars("Get"), Chars("get"), Chars("pOsT"), Chars("PUT") },
        p \in { Some(Chars("/x")), Some(Chars("/y")) } }

\* The inputs of the runs about patterns and paths: patterns with redundant
\* separators, with parameters, with braces that do not enclose a whole
\* component, and inbound paths that are shorter, longer or differently
\* cased.
PathPatterns ==
    { Chars("/"), Chars(""), Chars("/a//b/"), Chars("a/b"),
      Chars("/users"), Chars("/users/{id}"), Chars("/users/{a}/posts/{b}"),
      Chars("/{a"), Chars("/x{a}"), Chars("/{}"), Chars("/{a}/{a}") }
PathMethodLists == { << Chars("GET") >> }
PathHandlers == { "echo" }
PathEvents ==
    { [http_method |-> Chars("GET"), path |-> p, query_string_parameters |-> EmptyMap,
       headers |-> EmptyMap, body |-> None] :
        p \in { None, Some(Chars("/")), Some(Chars("")), Some(Chars("//")),
                Some(Chars("/x")), Some(Chars("/a/b")), Some(Chars("/A/b")),
                Some(Chars("/users")), Some(Chars("users/42/")),
                Some(Chars("/users/42/x")), Some(Chars("/users/7/posts/99")),
                Some(Chars("/{a")) } }

\* The inputs of the runs about inbound bodies: no body, a JSON object, the
\* JSON null, a JSON string, a text that is not JSON and the empty text;
\* the handlers read the body ("received") or fail.
BodyHandlers == { "received", "fail" }
BodyEvents ==
    { [http_method |-> Chars("GET"), path |-> p, query_string_parameters |-> EmptyMap,
       headers |-> EmptyMap, body |-> b] :
        p \in { Some(Chars("/x")), Some(Chars("/y")) },
        b \in { None, Some("{\"name\":\"test-item\"}"), Some("null"), Some("\"hi\""),
                Some("not json"), Some("") } }

\* The inputs of the runs about captured parameters: routes that share a
\* path shape and differ in parameter name and method.
ParamPatterns == { Chars("/users/{a}"), Chars("/users/{b}"), Chars("/{a}/5") }
ParamMethodLists == { << Chars("POST") >>, << Chars("GET") >> }
ParamEvents ==
    { [http_method |-> m, path |-> p, query_string_parameters |-> EmptyMap,
       headers |-> EmptyMap, body |-> None] :
        m \in { Chars("GET"), Chars("POST") },
        p \in { Some(Chars("/users/5")), Some(Chars("/users")) } }

\* The inputs of the runs about the spelling of inbound paths: the same
\* components written with leading, trailing and repeated slashes.
NormPatterns == { Chars("/users/{a}"), Chars("/users"), Chars("/{a}/42") }
NormEvents ==
    { [http_method |-> Chars("GET"), path |-> Some(p), query_string_parameters |-> EmptyMap,
       headers |-> EmptyMap, body |-> None] :
        p \in { Chars("/users/42"), Chars("users/42/"), Chars("//users//42"),
                Chars("/users/"), Chars("/users"), Chars("/") } }

\* The dispatches that may be in flight at once.
Dispatchers == {1, 2}

\* ------------------------------------------------------------ the program

NoEvent == [none |-> TRUE]

\* The command line process before it is started: no subcommand, no local
\* set, nothing printed, no exit status.
AtShell ==
    [pc |-> "shell", command |-> "", function_arn |-> "", api_id |-> 0,
     root_id |-> "", proxy_id |-> "", resource |-> 0,
     warnings |-> 0, banner |-> FALSE, exit |-> None]

\* The root resource every REST API is created with, and a {proxy+} child.
RootResource == [id |-> 1, path |-> "/", pathPart |-> ""]
ProxyResource(id) == [id |-> id, path |-> "/{proxy+}", pathPart |-> "{proxy+}"]

\* A REST API as created: its root resource only, no method on it.
NewRestApi(name) == [name |-> name, resources |-> <<RootResource>>, methods |-> {}]

\* The AWS account before the first deploy: it holds an unrelated REST API,
\* and no function, no invoke permission and no deployment of this project.
InitialAccount ==
    [function |-> FALSE, apis |-> <<NewRestApi("billing")>>,
     permission |-> FALSE, deployments |-> 0]

\* Choko::new, no event received yet, and the command line not started.

Init ==
    /\ routes = <<>>
    /\ phase = "setup"
    /\ pc = [d \in Dispatchers |-> "idle"]
    /\ event = [d \in Dispatchers |-> NoEvent]
    /\ idx = [d \in Dispatchers |-> 0]
    /\ path_matched = [d \in Dispatchers |-> FALSE]
    /\ request = [d \in Dispatchers |-> None]
    /\ calls = [d \in Dispatchers |-> <<>>]
    /\ out = [d \in Dispatchers |-> <<>>]
    /\ cli = AtShell
    /\ issued = <<>>
    /\ cloud = InitialAccount
    /\ deploys = 0

\* An application that can still be reached for registration after run.
CanRegister_Always == TRUE

\* Whether route may be called: route takes &mut self, and run(self) moves
\* the application into an Arc that hands out shared references only.
CanRegister == phase = "setup"

\* The Route that Choko::route builds.
NewRoute(path, methods, handler) ==
    [_path_pattern |-> path,
     methods |-> [i \in 1..Len(methods) |-> to_uppercase(methods[i])],
     handler |-> handler,
     segments |-> compile_path(path)]

\* A registration that puts the new route in front of the others.
Route_Prepend(path, methods, handler) ==
    /\ CanRegister
    /\ Len(routes) < MaxRoutes
    /\ routes' = <<NewRoute(path, methods, handler)>> \o routes
    /\ UNCHANGED <<phase, pc, event, idx, path_matched, request, calls, out>>
    /\ UNCHANGED cliVars

\* Choko::route
Route(path, methods, handler) ==
    /\ CanRegister
    /\ Len(routes) < MaxRoutes
    /\ routes' = Append(routes, NewRoute(path, methods, handler))
    /\ UNCHANGED <<phase, pc, event, idx, path_matched, request, calls, out>>
    /\ UNCHANGED cliVars

\* Choko::run: the application is moved behind the service function.
Run ==
    /\ phase = "setup"
    /\ phase' = "running"
    /\ UNCHANGED <<routes, pc, event, idx, path_matched, request, calls, out>>
    /\ UNCHANGED cliVars

\* let path = event.path.as_deref().unwrap_or("/")
PathOf(ev) == IF ev.path.some THEN ev.path.val ELSE <<"/">>

\* A dispatch that compares the method as it was sent.
MethodOf_AsSent(ev) == ev.http_method

\* let method = event.http_method.as_str().to_uppercase()
MethodOf(ev) == to_uppercase(ev.http_method)

\* A scan that forgets the method check.
MethodAllowed_Any(route, method) == TRUE

\* route.methods.contains(&method)
MethodAllowed(route, method) ==
    \E i \in 1..Len(route.methods) : route.methods[i] = method

\* A flag that starts out set.
InitialFlag_Set(d) == TRUE

\* let mut path_matched = false
InitialFlag(d) == FALSE

\* The service function is called with an event: dispatch begins.
Receive(d, ev) ==
    /\ phase = "running"
    /\ pc[d] = "idle"
    /\ pc' = [pc EXCEPT ![d] = "scanning"]
    /\ event' = [event EXCEPT ![d] = ev]
    /\ idx' = [idx EXCEPT ![d] = 1]
    /\ path_matched' = [path_matched EXCEPT ![d] = InitialFlag(d)]
    /\ UNCHANGED <<routes, phase, request, calls, out>>
    /\ UNCHANGED cliVars

\* Captures kept in one map across the turns of the loop: those of every
\* route up to idx whose path matched, later ones over earlier ones.
path_params_Accumulated(d, m) ==
    LET Upto(i) ==
            { k \in 1..i : match_path(routes[k].segments, PathOf(event[d])).some }
        Of(k) == match_path(routes[k].segments, PathOf(event[d])).val
        keys == UNION { DOMAIN Of(k) : k \in Upto(idx[d]) }
    IN  [n \in keys |->
            Of(CHOOSE k \in Upto(idx[d]) :
                   /\ n \in DOMAIN Of(k)
                   /\ \A j \in Upto(idx[d]) : n \in DOMAIN Of(j) => j <= k)[n]]

\* `if let Some(path_params) = match_path(..)`: the captures of this turn
\* of the loop, bound afresh for the route examined.
path_params(d, m) == m.val

\* A loop that stays at the route it has just examined.
NextIndex_Stay(d) == idx[d]

\* `for route in &self.routes` goes on to the next route.
NextIndex(d) == idx[d] + 1

\* One turn of `for route in &self.routes`: the route at idx is examined
\* and, when its path and method match, its handler is invoked.
ScanStep(d) ==
    /\ pc[d] = "scanning"
    /\ idx[d] <= Len(routes)
    /\ LET route == routes[idx[d]]
           m == match_path(route.segments, PathOf(event[d]))
       IN  IF m.some /\ MethodAllowed(route, MethodOf(event[d]))
           THEN /\ path_matched' = [path_matched EXCEPT ![d] = TRUE]
                /\ request' = [request EXCEPT ![d] = Some(build_request(event[d], path_params(d, m)))]
                /\ calls' = [calls EXCEPT ![d] = Append(@, idx[d])]
                /\ pc' = [pc EXCEPT ![d] = "invoking"]
                /\ UNCHANGED idx
           ELSE /\ path_matched' = [path_matched EXCEPT ![d] = @ \/ m.some]
                /\ idx' = [idx EXCEPT ![d] = NextIndex(d)]
                /\ UNCHANGED <<request, calls, pc>>
    /\ UNCHANGED <<routes, phase, event, out>>
    /\ UNCHANGED cliVars

\* A fallback that ignores the flag and always answers Not Found.
NoRouteOutcome_NotFound(flag) ==
    [kind |-> "NoPathMatch", result |-> Ok(error_response(404, "Not Found"))]

\* What dispatch returns after the loop found no route.
NoRouteOutcome(flag) ==
    IF flag
    THEN [kind |-> "NoMethodMatch", result |-> Ok(error_response(405, "Method Not Allowed"))]
    ELSE [kind |-> "NoPathMatch", result |-> Ok(error_response(404, "Not Found"))]

\* A flag kept in one place for every dispatch.
FlagOf_Shared(d) == \E e \in Dispatchers : path_matched[e]

\* `if path_matched`: the flag a dispatch reads is its own local.
FlagOf(d) == path_matched[d]

\* The loop ran off the end of the table.
ScanEnd(d) ==
    /\ pc[d] = "scanning"
    /\ idx[d] > Len(routes)
    /\ out' = [out EXCEPT ![d] = Append(@, NoRouteOutcome(FlagOf(d)))]
    /\ pc' = [pc EXCEPT ![d] = "done"]
    /\ UNCHANGED <<routes, phase, event, idx, path_matched, request, calls>>
    /\ UNCHANGED cliVars

\* A dispatch that hands the handler's failure on to its caller.
HandlerOutcome_Propagate(res, order) ==
    IF res.ok
    THEN [kind |-> "Success", result |-> Ok(build_apigw_response(res.val, order))]
    ELSE [kind |-> "HandlerFailed", result |-> Err(res.err)]

\* What dispatch returns for the handler's result.
HandlerOutcome(res, order) ==
    IF res.ok
    THEN [kind |-> "Success", result |-> Ok(build_apigw_response(res.val, order))]
    ELSE [kind |-> "HandlerFailed",
          result |-> Ok(error_response(500, "Internal Server Error: " \o res.err))]

\* A loop that goes on to the next route after the handler.
AfterHandler_Continue(d) == [pc EXCEPT ![d] = "scanning"]

\* Where a dispatch goes once the handler's result is encoded: `return match`.
AfterHandler(d) == [pc EXCEPT ![d] = "done"]

\* The awaited handler completes and dispatch returns.
HandlerReturn(d) ==
    /\ pc[d] = "invoking"
    /\ LET route == routes[idx[d]]
           res == Invoke(route.handler, request[d].val)
       IN  \E order \in Orders(IF res.ok THEN DOMAIN res.val.headers ELSE {}) :
               out' = [out EXCEPT ![d] = Append(@, HandlerOutcome(res, order))]
    /\ pc' = AfterHandler(d)
    /\ idx' = [idx EXCEPT ![d] = IF pc'[d] = "done" THEN @ ELSE @ + 1]
    /\ UNCHANGED <<routes, phase, event, path_matched, request, calls>>
    /\ UNCHANGED cliVars

\* The runtime takes the returned envelope and the dispatch is over. What
\* path_matched held stays behind until the next dispatch initializes it.
Respond(d) ==
    /\ pc[d] = "done"
    /\ pc' = [pc EXCEPT ![d] = "idle"]
    /\ event' = [event EXCEPT ![d] = NoEvent]
    /\ idx' = [idx EXCEPT ![d] = 0]
    /\ request' = [request EXCEPT ![d] = None]
    /\ calls' = [calls EXCEPT ![d] = <<>>]
    /\ out' = [out EXCEPT ![d] = <<>>]
    /\ UNCHANGED <<routes, phase, path_matched>>
    /\ UNCHANGED cliVars

\* The Lambda runtime's loop: one invocation at a time.
Next ==
    \/ \E p \in Patterns, ms \in MethodLists, h \in Handlers : Route(p, ms, h)
    \/ Run
    \/ \E ev \in Events : Receive(1, ev)
    \/ ScanStep(1)
    \/ ScanEnd(1)
    \/ HandlerReturn(1)
    \/ Respond(1)

Spec == Init /\ [][Next]_vars

\* The same loop over applications whose handlers answer with error statuses
\* of their own.
NextOwnStatus ==
    \/ \E p \in ConcPatterns, ms \in MethodLists, h \in OwnStatusHandlers : Route(p, ms, h)
    \/ Run
    \/ \E ev \in Events : Receive(1, ev)
    \/ ScanStep(1)
    \/ ScanEnd(1)
    \/ HandlerReturn(1)
    \/ Respond(1)

SpecOwnStatus == Init /\ [][NextOwnStatus]_vars

\* The same loop over method names in several spellings.
NextCase ==
    \/ \E p \in CasePatterns, ms \in CaseMethodLists, h \in Handlers : Route(p, ms, h)
    \/ Run
    \/ \E ev \in CaseEvents : Receive(1, ev)
    \/ ScanStep(1)
    \/ ScanEnd(1)
    \/ HandlerReturn(1)
    \/ Respond(1)

SpecCase == Init /\ [][NextCase]_vars

\* The same loop over the patterns and paths above.
NextPaths ==
    \/ \E p \in PathPatterns, ms \in PathMethodLists, h \in PathHandlers : Route(p, ms, h)
    \/ Run
    \/ \E ev \in PathEvents : Receive(1, ev)
    \/ ScanStep(1)
    \/ ScanEnd(1)
    \/ HandlerReturn(1)
    \/ Respond(1)

SpecPaths == Init /\ [][NextPaths]_vars

\* The same loop over applications whose handlers set statuses and headers.
NextHeaders ==
    \/ \E p \in CasePatterns, ms \in PathMethodLists, h \in HeaderHandlers : Route(p, ms, h)
    \/ Run
    \/ \E ev \in PathEvents : Receive(1, ev)
    \/ ScanStep(1)
    \/ ScanEnd(1)
    \/ HandlerReturn(1)
    \/ Respond(1)

SpecHeaders == Init /\ [][NextHeaders]_vars

\* The same loop over events with bodies.
NextBodies ==
    \/ \E p \in CasePatterns, ms \in PathMethodLists, h \in BodyHandlers : Route(p, ms, h)
    \/ Run
    \/ \E ev \in BodyEvents : Receive(1, ev)
    \/ ScanStep(1)
    \/ ScanEnd(1)
    \/ HandlerReturn(1)
    \/ Respond(1)

SpecBodies == Init /\ [][NextBodies]_vars

\* The same loop over routes that differ in parameter name and method.
NextParams ==
    \/ \E p \in ParamPatterns, ms \in ParamMethodLists, h \in PathHandlers : Route(p, ms, h)
    \/ Run
    \/ \E ev \in ParamEvents : Receive(1, ev)
    \/ ScanStep(1)
    \/ ScanEnd(1)
    \/ HandlerReturn(1)
    \/ Respond(1)

SpecParams == Init /\ [][NextParams]_vars

\* Several dispatches in flight over one route table, their steps interleaved.
NextConc ==
    \/ \E p \in ConcPatterns, ms \in ConcMethodLists, h \in ConcHandlers : Route(p, ms, h)
    \/ Run
    \/ \E d \in Dispatchers :
        \/ \E ev \in ConcEvents : Receive(d, ev)
        \/ ScanStep(d)
        \/ ScanEnd(d)
        \/ HandlerReturn(d)
        \/ Respond(d)

SpecConc == Init /\ [][NextConc]_vars

\* Several dispatches in flight whose paths are spelled differently.
NextNorm ==
    \/ \E p \in NormPatterns, ms \in PathMethodLists, h \in PathHandlers : Route(p, ms, h)
    \/ Run
    \/ \E d \in Dispatchers :
        \/ \E ev \in NormEvents : Receive(d, ev)
        \/ ScanStep(d)
        \/ ScanEnd(d)
        \/ HandlerReturn(d)
        \/ Respond(d)

SpecNorm == Init /\ [][NextNorm]_vars

\* The loop of one invocation at a time with the scheduling the runtime
\* gives: a dispatch that can take
\* a step of its loop eventually takes it, and an awaited handler eventually
\* completes. Nothing obliges the runtime to deliver events or to collect
\* the envelope.
NextLive ==
    \/ \E p \in ConcPatterns, ms \in ConcMethodLists, h \in Handlers : Route(p, ms, h)
    \/ Run
    \/ \E ev \in Events : Receive(1, ev)
    \/ ScanStep(1)
    \/ ScanEnd(1)
    \/ HandlerReturn(1)
    \/ Respond(1)

SpecLive ==
    /\ Init
    /\ [][NextLive]_vars
    /\ WF_vars(ScanStep(1))
    /\ WF_vars(ScanEnd(1))
    /\ WF_vars(HandlerReturn(1))


\* ------------------------------------------------- the command line tool
\* src/src/bin/choko.rs: `choko package` and `choko deploy`.  Every external
\* step (a file read, cargo, an aws command) is one action whose outcome is
\* chosen by the environment; `issued` records the steps of the current run
\* in the order they were run.  aws answers truthfully about the account:
\* a listing shows what the account holds, and every listed item carries
\* its id.

\* deploy: args.function_name, or the package name.
function_name == "hello"

\* ensure_api_gateway: the name of the project's REST API.
api_name == "choko-" \o function_name

\* One entry of `issued`: the function that ran the step, the step, the
\* resource it was about (0 when none), how it ended, and the items it listed.
Step(f, c, a, o, r) == [fn |-> f, cmd |-> c, arg |-> a, outcome |-> o, resp |-> r]

\* The ? operator: go on when the step succeeded, return the Err otherwise.
Try_Ignore(ok, next) == next
Try(ok, next) == IF ok THEN next ELSE "failed"

\* The effect of one step on the process: the step is recorded, the process
\* moves to `next` with its locals updated by `locals`.
Ran(step, next, locals) ==
    /\ issued' = Append(issued, step)
    /\ cli' = [locals EXCEPT !.pc = next]

\* main: the subcommand is parsed and started.
Main(command) ==
    /\ cli.pc \in {"shell", "exited"}
    /\ deploys < MaxDeploys
    /\ deploys' = deploys + 1
    /\ cli' = [AtShell EXCEPT !.command = command,
                              !.pc = IF command = "deploy" THEN "deploy" ELSE "package"]
    /\ issued' = <<>>
    /\ UNCHANGED cloud
    /\ UNCHANGED appVars

\* deploy: let pkg = get_package_name()?
DeployGetPackageName ==
    /\ cli.pc = "deploy"
    /\ \E o \in {"ok", "err"} :
        Ran(Step("deploy", "get_package_name", 0, o, <<>>), Try(o = "ok", "package"), cli)
    /\ UNCHANGED <<cloud, deploys>>
    /\ UNCHANGED appVars

\* package: let pkg = get_package_name()?
PackageGetPackageName ==
    /\ cli.pc = "package"
    /\ \E o \in {"ok", "err"} :
        Ran(Step("package", "get_package_name", 0, o, <<>>), Try(o = "ok", "cargo-build"), cli)
    /\ UNCHANGED <<cloud, deploys>>
    /\ UNCHANGED appVars

\* package: run_visible("cargo", ["build", "--release", "--target", target])?
CargoBuild ==
    /\ cli.pc = "cargo-build"
    /\ \E o \in {"ok", "err"} :
        Ran(Step("package", "cargo build", 0, o, <<>>), Try(o = "ok", "binary-exists"), cli)
    /\ UNCHANGED <<cloud, deploys>>
    /\ UNCHANGED appVars

\* package: if !Path::new(&bin_path).exists() { return Err(..) }
BinaryExists ==
    /\ cli.pc = "binary-exists"
    /\ \E o \in {"ok", "err"} :
        Ran(Step("package", "binary exists", 0, o, <<>>), Try(o = "ok", "create_bootstrap_zip"), cli)
    /\ UNCHANGED <<cloud, deploys>>
    /\ UNCHANGED appVars

\* Where package's Ok(()) returns to: main for `choko package`, deploy's
\* next step for `choko deploy`.
AfterPackage == IF cli.command = "package" THEN "succeeded" ELSE "get-function"

\* package: create_bootstrap_zip(&bin_path)?; Ok(())
CreateBootstrapZip ==
    /\ cli.pc = "create_bootstrap_zip"
    /\ \E o \in {"ok", "err"} :
        Ran(Step("package", "create_bootstrap_zip", 0, o, <<>>), Try(o = "ok", AfterPackage), cli)
    /\ UNCHANGED <<cloud, deploys>>
    /\ UNCHANGED appVars


\* The outcomes aws get-function can have: it succeeds only for a function
\* that exists, and may fail in any account.
GetFunctionOutcomes == IF cloud.function THEN {"ok", "err"} ELSE {"err"}

\* ensure_lambda: `if lambda_exists(name, region)` picks the branch.
ExistsBranch(exists) == IF exists THEN "update-function-code" ELSE "create-function"

\* lambda_exists: aws lambda get-function ... .is_ok()
GetFunction ==
    /\ cli.pc = "get-function"
    /\ \E o \in GetFunctionOutcomes :
        Ran(Step("ensure_lambda", "get-function", 0, o, <<>>), ExistsBranch(o = "ok"), cli)
    /\ UNCHANGED <<cloud, deploys>>
    /\ UNCHANGED appVars

\* The outcomes of a command that answers with a JSON document: the
\* command worked and the document has the field read from it ("ok"), the
\* command worked and the document cannot be parsed or lacks the field
\* ("malformed"), or the command failed ("err").
Answers(possible) == IF possible THEN {"ok", "malformed", "err"} ELSE {"err"}

\* ensure_lambda: what follows a code update whose answer carried the ARN.
AfterCodeUpdated_NoWait == "update-function-configuration"
AfterCodeUpdated == "wait function-updated-v2"

\* ensure_lambda, update branch: aws lambda update-function-code ...?;
\* parse_json(&raw)?; resp.get("FunctionArn") ... ok_or(..)?
UpdateFunctionCode ==
    /\ cli.pc = "update-function-code"
    /\ \E o \in Answers(cloud.function) :
        Ran(Step("ensure_lambda", "update-function-code", 0, o, <<>>),
            Try(o = "ok", AfterCodeUpdated),
            IF o = "ok" THEN [cli EXCEPT !.function_arn = "arn:" \o function_name] ELSE cli)
    /\ UNCHANGED <<cloud, deploys>>
    /\ UNCHANGED appVars

\* ensure_lambda, update branch: aws lambda wait function-updated-v2 ...?
WaitFunctionUpdated ==
    /\ cli.pc = "wait function-updated-v2"
    /\ \E o \in {"ok", "err"} :
        Ran(Step("ensure_lambda", "wait function-updated-v2", 0, o, <<>>),
            Try(o = "ok", "update-function-configuration"), cli)
    /\ UNCHANGED <<cloud, deploys>>
    /\ UNCHANGED appVars

\* ensure_lambda, update branch: aws lambda update-function-configuration ...?;
\* then Ok(arn) returns to deploy.
UpdateFunctionConfiguration ==
    /\ cli.pc = "update-function-configuration"
    /\ \E o \in {"ok", "err"} :
        Ran(Step("ensure_lambda", "update-function-configuration", 0, o, <<>>),
            Try(o = "ok", "get-rest-apis"), cli)
    /\ UNCHANGED <<cloud, deploys>>
    /\ UNCHANGED appVars

\* ensure_lambda, create branch: aws lambda create-function ...?;
\* parse_json(&raw)?; resp.get("FunctionArn") ... ok_or(..)?
\* AWS creates the function only when no function of that name exists.
CreateFunction ==
    /\ cli.pc = "create-function"
    /\ \E o \in Answers(~cloud.function) :
        /\ Ran(Step("ensure_lambda", "create-function", 0, o, <<>>),
               Try(o = "ok", "wait function-active-v2"),
               IF o = "ok" THEN [cli EXCEPT !.function_arn = "arn:" \o function_name] ELSE cli)
        /\ cloud' = IF o = "err" THEN cloud ELSE [cloud EXCEPT !.function = TRUE]
    /\ UNCHANGED deploys
    /\ UNCHANGED appVars

\* ensure_lambda, create branch: aws lambda wait function-active-v2 ...?;
\* then Ok(arn) returns to deploy.
WaitFunctionActive ==
    /\ cli.pc = "wait function-active-v2"
    /\ \E o \in {"ok", "err"} :
        Ran(Step("ensure_lambda", "wait function-active-v2", 0, o, <<>>),
            Try(o = "ok", "get-rest-apis"), cli)
    /\ UNCHANGED <<cloud, deploys>>
    /\ UNCHANGED appVars


\* What aws apigateway get-rest-apis lists: the name and the id of every
\* REST API of the account.
RestApiItems == [i \in 1..Len(cloud.apis) |-> [name |-> cloud.apis[i].name, id |-> i]]

\* ensure_api_gateway: the id of the first listed API named api_name.
FindApi_None(items) == None
FindApi(items) ==
    LET hits == { i \in 1..Len(items) : items[i].name = api_name }
    IN  IF hits = {} THEN None
        ELSE Some(items[CHOOSE i \in hits : \A j \in hits : i <= j].id)

\* ensure_api_gateway: aws apigateway get-rest-apis?; parse_json(&raw)?;
\* an API named api_name is used as it is, otherwise one is created.
GetRestApis ==
    /\ cli.pc = "get-rest-apis"
    /\ \E o \in Answers(TRUE) :
        LET items == IF o = "ok" THEN RestApiItems ELSE <<>>
            found == FindApi(items)
        IN  Ran(Step("ensure_api_gateway", "get-rest-apis", 0, o, items),
                Try(o = "ok", IF found.some THEN "get-resources" ELSE "create-rest-api"),
                IF o = "ok" /\ found.some THEN [cli EXCEPT !.api_id = found.val] ELSE cli)
    /\ UNCHANGED <<cloud, deploys>>
    /\ UNCHANGED appVars

\* ensure_api_gateway: aws apigateway create-rest-api --name api_name ...?;
\* parse_json(&raw)?; api.get("id") ... ok_or_else(..)
CreateRestApi ==
    /\ cli.pc = "create-rest-api"
    /\ \E o \in Answers(TRUE) :
        /\ Ran(Step("ensure_api_gateway", "create-rest-api", 0, o, <<>>),
               Try(o = "ok", "get-resources"),
               IF o = "ok" THEN [cli EXCEPT !.api_id = Len(cloud.apis) + 1] ELSE cli)
        /\ cloud' = IF o = "err" THEN cloud
                    ELSE [cloud EXCEPT !.apis = Append(@, NewRestApi(api_name))]
    /\ UNCHANGED deploys
    /\ UNCHANGED appVars

\* setup_proxy_integration: the id of the listed resource whose path is "/".
FindRoot(items) ==
    LET hits == { i \in 1..Len(items) : items[i].path = "/" }
    IN  IF hits = {} THEN None
        ELSE Some(items[CHOOSE i \in hits : \A j \in hits : i <= j].id)

\* setup_proxy_integration: the id of the listed resource whose path part
\* is {proxy+}.
FindProxy(items) ==
    LET hits == { i \in 1..Len(items) : items[i].pathPart = "{proxy+}" }
    IN  IF hits = {} THEN None
        ELSE Some(items[CHOOSE i \in hits : \A j \in hits : i <= j].id)

\* setup_proxy_integration: aws apigateway get-resources --rest-api-id api_id?;
\* parse_json(&raw)?; items ok_or(..)?; root_id ok_or(..)?; a listed {proxy+}
\* resource is used as it is, otherwise one is created.
GetResources ==
    /\ cli.pc = "get-resources"
    /\ \E o \in Answers(TRUE) :
        LET items == IF o = "ok" THEN cloud.apis[cli.api_id].resources ELSE <<>>
            root  == FindRoot(items)
            proxy == FindProxy(items)
        IN  Ran(Step("setup_proxy_integration", "get-resources", cli.api_id, o, items),
                Try(o = "ok" /\ root.some,
                    IF proxy.some THEN "put-method" ELSE "create-resource"),
                IF o = "ok" /\ root.some
                THEN [cli EXCEPT !.root_id = root.val,
                                 !.proxy_id = IF proxy.some THEN proxy.val ELSE 0,
                                 !.resource = IF proxy.some THEN 1 ELSE 0]
                ELSE cli)
    /\ UNCHANGED <<cloud, deploys>>
    /\ UNCHANGED appVars

\* AWS refuses a second child with the same path part under one parent.
CanCreateProxy == ~FindProxy(cloud.apis[cli.api_id].resources).some

\* setup_proxy_integration: aws apigateway create-resource --path-part
\* {proxy+} ...?; parse_json(&raw)?.get("id") ... ok_or(..)?
CreateResource ==
    /\ cli.pc = "create-resource"
    /\ \E o \in Answers(CanCreateProxy) :
        LET id == Len(cloud.apis[cli.api_id].resources) + 1
        IN  /\ Ran(Step("setup_proxy_integration", "create-resource", cli.api_id, o, <<>>),
                   Try(o = "ok", "put-method"),
                   IF o = "ok" THEN [cli EXCEPT !.proxy_id = id, !.resource = 1] ELSE cli)
            /\ cloud' = IF o = "err" THEN cloud
                        ELSE [cloud EXCEPT !.apis[cli.api_id].resources =
                                               Append(@, ProxyResource(id))]
    /\ UNCHANGED deploys
    /\ UNCHANGED appVars

\* setup_proxy_integration: the resource of the current turn of
\* `for resource_id in [&root_id, &proxy_id]`.
resource_id == IF cli.resource = 1 THEN cli.root_id ELSE cli.proxy_id

\* The outcomes aws apigateway put-method can have: it adds the method
\* when the resource has none, answers ConflictException when it has one,
\* and may fail otherwise in either case.
PutMethodOutcomes ==
    IF resource_id \in cloud.apis[cli.api_id].methods
    THEN {"ConflictException", "other"}
    ELSE {"ok", "other"}

\* setup_proxy_integration: `if let Err(e) = aws(put-method)` has no return.
AfterPutMethod_Abort(o) == Try(o = "ok", "put-integration")
AfterPutMethod(o) == "put-integration"

\* setup_proxy_integration: the warning printed for an error that does not
\* contain `expected`.
Warned(o, expected) == IF o \in {"ok", expected} THEN cli.warnings ELSE cli.warnings + 1

\* setup_proxy_integration: aws apigateway put-method ... for one resource.
PutMethod ==
    /\ cli.pc = "put-method"
    /\ \E o \in PutMethodOutcomes :
        /\ Ran(Step("setup_proxy_integration", "put-method", resource_id, o, <<>>),
               AfterPutMethod(o),
               [cli EXCEPT !.warnings = Warned(o, "ConflictException")])
        /\ cloud' = IF o = "ok"
                    THEN [cloud EXCEPT !.apis[cli.api_id].methods = @ \cup {resource_id}]
                    ELSE cloud
    /\ UNCHANGED deploys
    /\ UNCHANGED appVars

\* AWS sets an integration only on a method that exists.
CanIntegrate == resource_id \in cloud.apis[cli.api_id].methods

\* setup_proxy_integration: aws apigateway put-integration ...? for one
\* resource; then the next turn of the loop, or the permission steps.
PutIntegration ==
    /\ cli.pc = "put-integration"
    /\ \E o \in IF CanIntegrate THEN {"ok", "err"} ELSE {"err"} :
        Ran(Step("setup_proxy_integration", "put-integration", resource_id, o, <<>>),
            Try(o = "ok", IF cli.resource = 1 THEN "put-method" ELSE "get-caller-identity"),
            IF o = "ok" /\ cli.resource = 1 THEN [cli EXCEPT !.resource = 2] ELSE cli)
    /\ UNCHANGED <<cloud, deploys>>
    /\ UNCHANGED appVars

\* get_account_id: aws sts get-caller-identity?; parse_json(&raw)?
\* .get("Account") ... ok_or_else(..)
GetAccountId ==
    /\ cli.pc = "get-caller-identity"
    /\ \E o \in Answers(TRUE) :
        Ran(Step("setup_proxy_integration", "get-caller-identity", 0, o, <<>>),
            Try(o = "ok", "remove-permission"), cli)
    /\ UNCHANGED <<cloud, deploys>>
    /\ UNCHANGED appVars

\* The outcomes aws lambda remove-permission can have: it removes the
\* statement when there is one, answers ResourceNotFoundException when
\* there is none, and may fail otherwise in either case.
RemovePermissionOutcomes ==
    IF cloud.permission THEN {"ok", "other"} ELSE {"ResourceNotFoundException", "other"}

\* setup_proxy_integration: `if let Err(e) = aws(remove-permission)` has no
\* return.
RemovePermission ==
    /\ cli.pc = "remove-permission"
    /\ \E o \in RemovePermissionOutcomes :
        /\ Ran(Step("setup_proxy_integration", "remove-permission", 0, o, <<>>),
               "add-permission",
               [cli EXCEPT !.warnings = Warned(o, "ResourceNotFoundException")])
        /\ cloud' = IF o = "ok" THEN [cloud EXCEPT !.permission = FALSE] ELSE cloud
    /\ UNCHANGED deploys
    /\ UNCHANGED appVars

\* setup_proxy_integration: aws lambda add-permission --statement-id
\* choko-apigateway ...?  AWS refuses a statement id that is in use.
AddPermission ==
    /\ cli.pc = "add-permission"
    /\ \E o \in IF cloud.permission THEN {"err"} ELSE {"ok", "err"} :
        /\ Ran(Step("setup_proxy_integration", "add-permission", 0, o, <<>>),
               Try(o = "ok", "create-deployment"), cli)
        /\ cloud' = IF o = "ok" THEN [cloud EXCEPT !.permission = TRUE] ELSE cloud
    /\ UNCHANGED deploys
    /\ UNCHANGED appVars

\* setup_proxy_integration: aws apigateway create-deployment ...?; Ok(())
CreateDeployment ==
    /\ cli.pc = "create-deployment"
    /\ \E o \in {"ok", "err"} :
        /\ Ran(Step("setup_proxy_integration", "create-deployment", cli.api_id, o, <<>>),
               Try(o = "ok", "banner"), cli)
        /\ cloud' = IF o = "ok" THEN [cloud EXCEPT !.deployments = @ + 1] ELSE cloud
    /\ UNCHANGED deploys
    /\ UNCHANGED appVars

\* deploy: println!("Deployed successfully!") with the endpoint; Ok(())
Banner ==
    /\ cli.pc = "banner"
    /\ cli' = [cli EXCEPT !.banner = TRUE, !.pc = "succeeded"]
    /\ UNCHANGED <<issued, cloud, deploys>>
    /\ UNCHANGED appVars

\* main: the status the process ends with.
ExitStatus(result) == IF result = "failed" THEN 1 ELSE 0

\* main: `if let Err(e) = result { ...; std::process::exit(1) }`, else the
\* process returns from main.
Exit ==
    /\ cli.pc \in {"succeeded", "failed"}
    /\ cli' = [cli EXCEPT !.exit = Some(ExitStatus(cli.pc)), !.pc = "exited"]
    /\ UNCHANGED <<issued, cloud, deploys>>
    /\ UNCHANGED appVars

\* The command line tool, started up to MaxDeploys times on one account.
NextDeploy ==
    \/ \E command \in {"package", "deploy"} : Main(command)
    \/ DeployGetPackageName
    \/ PackageGetPackageName
    \/ CargoBuild
    \/ BinaryExists
    \/ CreateBootstrapZip
    \/ GetFunction
    \/ UpdateFunctionCode
    \/ WaitFunctionUpdated
    \/ UpdateFunctionConfiguration
    \/ CreateFunction
    \/ WaitFunctionActive
    \/ GetRestApis
    \/ CreateRestApi
    \/ GetResources
    \/ CreateResource
    \/ PutMethod
    \/ PutIntegration
    \/ GetAccountId
    \/ RemovePermission
    \/ AddPermission
    \/ CreateDeployment
    \/ Banner
    \/ Exit

SpecDeploy == Init /\ [][NextDeploy]_vars


\* ----------------------------------------------------------------- claims

Min(S) == CHOOSE x \in S : \A y \in S : x <= y

\* The routes whose compiled pattern matches the path of ev.
PathMatching(ev) ==
    { i \in 1..Len(routes) : match_path(routes[i].segments, PathOf(ev)).some }

\* The routes that match the path of ev and list its upper-cased method.
FullMatching(ev) ==
    { i \in PathMatching(ev) :
        to_uppercase(ev.http_method) \in
            { routes[i].methods[j] : j \in 1..Len(routes[i].methods) } }

\* The envelope of an error answer, spelled out.
JsonHeaders == [k \in {CONTENT_TYPE} |-> APPLICATION_JSON]
ErrorEnvelope(status, text) ==
    [status_code |-> status, headers |-> JsonHeaders, body |-> Some(Text(text))]

MethodNotAllowedEnvelope == ErrorEnvelope(405, "{\"error\":\"Method Not Allowed\"}")
NotFoundEnvelope == ErrorEnvelope(404, "{\"error\":\"Not Found\"}")

\* C1: when some route matches both the path and the upper-cased method of
\* the inbound event, dispatch invokes the handler of the lowest-index such
\* route in registration order and the handler of no other route.
C1_FirstMatchWins ==
    \A d \in Dispatchers :
        (pc[d] # "idle" /\ FullMatching(event[d]) # {}) =>
            /\ \A k \in 1..Len(calls[d]) : calls[d][k] = Min(FullMatching(event[d]))
            /\ pc[d] = "done" => calls[d] = <<Min(FullMatching(event[d]))>>

\* A finished dispatch that chose the first of two routes matching path and
\* method, and one that passed over a route matching the path alone.
C1_Witness ==
    \E d \in Dispatchers :
        /\ pc[d] = "done"
        /\ \/ FullMatching(event[d]) = {1, 2} /\ calls[d] = <<1>>
           \/ PathMatching(event[d]) = {1, 2} /\ FullMatching(event[d]) = {2}
              /\ calls[d] = <<2>>
        /\ routes[1].segments # routes[2].segments

\* C2 as stated: a finished dispatch holds 405 {"error": "Method Not
\* Allowed"} exactly when some route matches the path and no route matches
\* path and method.
C2_AsStated ==
    \A d \in Dispatchers :
        pc[d] = "done" =>
            ((out[d] # <<>> /\ out[d][1].result = Ok(MethodNotAllowedEnvelope))
                 <=> (PathMatching(event[d]) # {} /\ FullMatching(event[d]) = {}))

\* C2: dispatch itself answers Method Not Allowed exactly when some route
\* matches the path and no route matches path and method; the answer is 405
\* {"error": "Method Not Allowed"} and is given only after the whole table
\* was examined. The same envelope is otherwise returned only as the
\* Response of the selected handler.
C2_MethodNotAllowed ==
    \A d \in Dispatchers :
        pc[d] = "done" =>
            /\ Len(out[d]) = 1
            /\ out[d][1].kind = "NoMethodMatch"
                   <=> (PathMatching(event[d]) # {} /\ FullMatching(event[d]) = {})
            /\ out[d][1].kind = "NoMethodMatch" =>
                   /\ out[d][1].result = Ok(MethodNotAllowedEnvelope)
                   /\ idx[d] = Len(routes) + 1
                   /\ calls[d] = <<>>
            /\ (out[d][1].result = Ok(MethodNotAllowedEnvelope)
                    /\ out[d][1].kind # "NoMethodMatch") =>
                   /\ out[d][1].kind = "Success"
                   /\ calls[d] = <<Min(FullMatching(event[d]))>>

\* A finished dispatch answered Method Not Allowed after passing over two
\* routes that match the path.
C2_Witness ==
    \E d \in Dispatchers :
        /\ pc[d] = "done"
        /\ out[d][1].kind = "NoMethodMatch"
        /\ out[d][1].result = Ok(MethodNotAllowedEnvelope)
        /\ PathMatching(event[d]) = {1, 2}

\* C3 as stated: a finished dispatch holds 404 {"error": "Not Found"}
\* exactly when no route's compiled pattern matches the path.
C3_AsStated ==
    \A d \in Dispatchers :
        pc[d] = "done" =>
            ((out[d] # <<>> /\ out[d][1].result = Ok(NotFoundEnvelope))
                 <=> PathMatching(event[d]) = {})

\* C3: dispatch itself answers Not Found exactly when no route's compiled
\* pattern matches the path, the empty table included and whatever the
\* method; the answer is 404 {"error": "Not Found"}. The same envelope is
\* otherwise returned only as the Response of the selected handler.
C3_NotFound ==
    \A d \in Dispatchers :
        pc[d] = "done" =>
            /\ Len(out[d]) = 1
            /\ out[d][1].kind = "NoPathMatch" <=> PathMatching(event[d]) = {}
            /\ out[d][1].kind = "NoPathMatch" =>
                   /\ out[d][1].result = Ok(NotFoundEnvelope)
                   /\ calls[d] = <<>>
            /\ (out[d][1].result = Ok(NotFoundEnvelope)
                    /\ out[d][1].kind # "NoPathMatch") =>
                   /\ out[d][1].kind = "Success"
                   /\ calls[d] = <<Min(FullMatching(event[d]))>>

\* A finished dispatch answered Not Found over a table of two routes.
C3_Witness ==
    \E d \in Dispatchers :
        /\ pc[d] = "done"
        /\ out[d][1].kind = "NoPathMatch"
        /\ out[d][1].result = Ok(NotFoundEnvelope)
        /\ Len(routes) = 2

Outcomes == {"Success", "HandlerFailed", "NoMethodMatch", "NoPathMatch"}

\* C4: a dispatch returns exactly one of the four outcomes, returns nothing
\* before it ends, invokes at most one handler, and invokes one only when
\* the outcome is Success or HandlerFailed.
C4_ExactlyOneOutcome ==
    \A d \in Dispatchers :
        /\ Len(out[d]) <= 1
        /\ Len(calls[d]) <= 1
        /\ pc[d] \in {"scanning", "invoking"} => out[d] = <<>>
        /\ pc[d] = "done" =>
              /\ Len(out[d]) = 1
              /\ out[d][1].kind \in Outcomes
              /\ Len(calls[d]) = 1 <=> out[d][1].kind \in {"Success", "HandlerFailed"}

\* A finished dispatch whose first route matched path and method while the
\* second would have matched too.
C4_Witness ==
    \E d \in Dispatchers :
        /\ pc[d] = "done"
        /\ Len(out[d]) = 1
        /\ out[d][1].kind = "Success"
        /\ FullMatching(event[d]) = {1, 2}

\* C5: when the selected handler fails with description e, dispatch itself
\* returns Ok with status 500 and body {"error": "Internal Server Error: e"},
\* and tries no further route.
C5_HandlerFailureRecovered ==
    \A d \in Dispatchers :
        (pc[d] = "done" /\ calls[d] # <<>>
            /\ ~Invoke(routes[calls[d][1]].handler, request[d].val).ok) =>
            /\ out[d] =
                 << [kind |-> "HandlerFailed",
                     result |-> Ok(ErrorEnvelope(500,
                         "{\"error\":\"Internal Server Error: "
                             \o Invoke(routes[calls[d][1]].handler, request[d].val).err
                             \o "\"}"))] >>
            /\ Len(calls[d]) = 1
            /\ idx[d] = calls[d][1]

\* A finished dispatch whose failing first route is followed by a route
\* that matches the same event and would have answered.
C5_Witness ==
    \E d \in Dispatchers :
        /\ pc[d] = "done"
        /\ calls[d] = <<1>>
        /\ routes[1].handler = "fail"
        /\ FullMatching(event[d]) = {1, 2}
        /\ routes[2].handler = "echo"
        /\ out[d][1].result.val.status_code = 500

\* C6: registering a pattern with a component that is exactly `{}` is
\* rejected, so the route table never holds a Parameter segment whose name
\* is empty.
C6_EmptyParameterRejected ==
    \A i \in 1..Len(routes) :
        \A j \in 1..Len(routes[i].segments) :
            routes[i].segments[j] # Param(<<>>)

\* The names of the Parameter segments of a compiled pattern, in order.
ParamNames(segments) ==
    LET ps == SelectSeq(segments, LAMBDA g : g.kind = "Param")
    IN  [j \in 1..Len(ps) |-> ps[j].s]

\* C7: every route of the table has pairwise distinct parameter names, so
\* the Request handed to a handler holds one captured value per Parameter
\* segment of the selected route.
C7_ParameterNamesDistinct ==
    /\ \A i \in 1..Len(routes) :
           LET names == ParamNames(routes[i].segments)
           IN  \A j, k \in 1..Len(names) : j # k => names[j] # names[k]
    /\ \A d \in Dispatchers :
           pc[d] = "invoking" =>
               Cardinality(DOMAIN request[d].val.path_params)
                   = Len(ParamNames(routes[idx[d]].segments))

\* C8: two dispatches of the same inbound event against the route table
\* return the same envelope (status, headers, body), whatever was dispatched
\* before or between.
C8_DispatchIdempotent ==
    \A d1, d2 \in Dispatchers :
        (pc[d1] = "done" /\ pc[d2] = "done" /\ event[d1] = event[d2]) =>
            out[d1] = out[d2]

\* What a dispatch of ev may return when it has the route table to itself:
\* one value, but for a Response whose header names collide once lower-cased,
\* where the value kept is that of the name the HashMap yields last.
AloneOutcomes(ev) ==
    IF FullMatching(ev) # {}
    THEN LET route == routes[Min(FullMatching(ev))]
             req == build_request(ev, match_path(route.segments, PathOf(ev)).val)
             res == Invoke(route.handler, req)
         IN  IF res.ok
             THEN { [kind |-> "Success",
                     result |-> Ok([status_code |-> res.val.status_code,
                                    headers |-> h,
                                    body |-> Some(Text(to_string(res.val.body)))])] :
                    h \in { g \in [{CONTENT_TYPE}
                                     \cup { HeaderName_from_bytes(k).val :
                                              k \in DOMAIN res.val.headers }
                                   -> {APPLICATION_JSON}
                                        \cup { res.val.headers[k] :
                                                 k \in DOMAIN res.val.headers }] :
                              \A n \in DOMAIN g :
                                  \/ \E k \in DOMAIN res.val.headers :
                                        /\ HeaderName_from_bytes(k).val = n
                                        /\ g[n] = res.val.headers[k]
                                  \/ /\ n = CONTENT_TYPE
                                     /\ g[n] = APPLICATION_JSON
                                     /\ \A k \in DOMAIN res.val.headers :
                                            HeaderName_from_bytes(k).val # n } }
             ELSE { [kind |-> "HandlerFailed",
                     result |-> Ok(ErrorEnvelope(500,
                         "{\"error\":\"Internal Server Error: " \o res.err \o "\"}"))] }
    ELSE IF PathMatching(ev) # {}
         THEN { [kind |-> "NoMethodMatch", result |-> Ok(MethodNotAllowedEnvelope)] }
         ELSE { [kind |-> "NoPathMatch", result |-> Ok(NotFoundEnvelope)] }

\* What belongs to one dispatch.
Locals(d) ==
    <<pc[d], event[d], idx[d], path_matched[d], request[d], calls[d], out[d]>>

\* C9: with several dispatches in flight and their steps interleaved, each
\* dispatch returns what it would return alone, no step changes what
\* belongs to two dispatches, and the route table is only read.
C9_DispatchesIndependent ==
    /\ [](\A d \in Dispatchers :
              pc[d] = "done" =>
                  /\ Len(out[d]) = 1
                  /\ out[d][1] \in AloneOutcomes(event[d]))
    /\ [][ /\ \A d1, d2 \in Dispatchers :
                  d1 # d2 => (Locals(d1)' = Locals(d1) \/ Locals(d2)' = Locals(d2))
           /\ phase = "running" => routes' = routes ]_vars

\* One dispatch ended Not Found while another, still awaiting its handler,
\* had matched a path.
C9_Witness ==
    /\ pc[1] = "done"
    /\ out[1][1].kind = "NoPathMatch"
    /\ pc[2] = "invoking"
    /\ path_matched[2]
    /\ Len(routes) = 2

\* C10: registration happens only before the first dispatch begins; once
\* run has taken the application it stays taken and no step, of a dispatch
\* or otherwise, changes the route table.
C10_RegisterThenFreeze ==
    /\ [](\A d \in Dispatchers : pc[d] # "idle" => phase = "running")
    /\ [][ /\ phase = "running" => (phase' = "running" /\ routes' = routes)
           /\ routes' # routes =>
                  /\ phase = "setup"
                  /\ \A d \in Dispatchers : pc[d] = "idle" /\ out[d] = <<>> ]_vars

\* A dispatch has finished over a table of two routes.
C10_Witness ==
    /\ phase = "running"
    /\ Len(routes) = 2
    /\ \E d \in Dispatchers : pc[d] = "done" /\ out[d][1].kind = "Success"

\* C11: the route table is ordered and append-only: a registration adds
\* exactly one route at the end and leaves the routes before it and their
\* order as they were, and a dispatch examines the routes from the first
\* on, one position at a time.
C11_AppendOnly ==
    [][ /\ routes' # routes =>
              /\ Len(routes') = Len(routes) + 1
              /\ SubSeq(routes', 1, Len(routes)) = routes
        /\ \A d \in Dispatchers :
              idx'[d] # idx[d] =>
                  \/ pc[d] = "idle" /\ pc'[d] = "scanning" /\ idx'[d] = 1
                  \/ pc[d] = "scanning" /\ idx'[d] = idx[d] + 1
                  \/ pc[d] = "done" /\ pc'[d] = "idle" /\ idx'[d] = 0 ]_vars

\* Two different routes were registered and a dispatch has passed over the
\* first and stands at the second.
C11_Witness ==
    /\ Len(routes) = 2
    /\ routes[1] # routes[2]
    /\ \E d \in Dispatchers : pc[d] = "scanning" /\ idx[d] = 2

\* The lower-case and upper-case forms of the letters of the method names.
CasePairs ==
    { <<"g", "G">>, <<"e", "E">>, <<"t", "T">>, <<"p", "P">>, <<"o", "O">>,
      <<"s", "S">> }

\* Two texts that differ at most in the case of their letters.
SameIgnoringCase(a, b) ==
    /\ Len(a) = Len(b)
    /\ \A k \in 1..Len(a) :
          a[k] = b[k] \/ <<a[k], b[k]>> \in CasePairs \/ <<b[k], a[k]>> \in CasePairs

\* The routes that match the path of ev and list its method in some case.
CaseMatching(ev) ==
    { i \in PathMatching(ev) :
        \E j \in 1..Len(routes[i].methods) :
            SameIgnoringCase(routes[i].methods[j], ev.http_method) }

\* C12: every method stored in a route is upper case, whatever case it was
\* registered with, and the inbound method is compared whatever its case: a
\* dispatch selects the first route that matches the path and lists the
\* inbound method up to letter case, and answers Method Not Allowed or Not
\* Found only when there is no such route.
C12_MethodCaseNormalized ==
    /\ \A i \in 1..Len(routes) :
          /\ routes[i].methods \in
                 { << Chars("GET") >>, << Chars("POST") >>, << Chars("GET"), Chars("POST") >> }
          /\ \A j \in 1..Len(routes[i].methods) :
                \A k \in 1..Len(routes[i].methods[j]) :
                    \A pair \in CasePairs : routes[i].methods[j][k] # pair[1]
    /\ \A d \in Dispatchers :
          pc[d] = "done" =>
              IF CaseMatching(event[d]) # {}
              THEN /\ calls[d] = << Min(CaseMatching(event[d])) >>
                   /\ out[d][1].kind \in {"Success", "HandlerFailed"}
              ELSE /\ calls[d] = <<>>
                   /\ out[d][1].kind \in {"NoMethodMatch", "NoPathMatch"}

\* A route registered with "get", stored as GET, answered an inbound "Get".
C12_Witness ==
    \E d \in Dispatchers :
        /\ pc[d] = "done"
        /\ out[d][1].kind = "Success"
        /\ event[d].http_method = Chars("Get")
        /\ routes[calls[d][1]].methods = << Chars("GET") >>

RECURSIVE Pieces(_, _)
\* The non-empty runs of characters other than `/` in a text, in order, read
\* off character by character; cur is the run being read.
Pieces(s, cur) ==
    IF s = <<>> THEN (IF cur = <<>> THEN <<>> ELSE <<cur>>)
    ELSE IF Head(s) = "/"
         THEN (IF cur = <<>> THEN <<>> ELSE <<cur>>) \o Pieces(Tail(s), <<>>)
         ELSE Pieces(Tail(s), Append(cur, Head(s)))

\* C13: two registered patterns with the same sequence of non-empty
\* `/`-separated components have identical compiled segments, and the
\* patterns `/` and the empty text compile to no segments at all.
C13_RedundantSeparatorsIgnored ==
    /\ \A i, j \in 1..Len(routes) :
          Pieces(routes[i]._path_pattern, <<>>) = Pieces(routes[j]._path_pattern, <<>>)
              => routes[i].segments = routes[j].segments
    /\ \A i \in 1..Len(routes) :
          /\ Len(routes[i].segments) = Len(Pieces(routes[i]._path_pattern, <<>>))
          /\ routes[i]._path_pattern \in { Chars("/"), Chars("") }
                => routes[i].segments = <<>>

\* The table holds `/a//b/` and `a/b`, compiled to the same two literals.
C13_Witness ==
    /\ Len(routes) = 2
    /\ routes[1]._path_pattern = Chars("/a//b/")
    /\ routes[2]._path_pattern = Chars("a/b")
    /\ routes[1].segments = << Literal(Chars("a")), Literal(Chars("b")) >>
    /\ routes[2].segments = routes[1].segments

\* The segment a component stands for: Parameter(name) for `{name}` with a
\* non-empty name, Literal(component) for anything else.
Classified(c) ==
    IF Len(c) >= 3 /\ c[1] = "{" /\ c[Len(c)] = "}"
    THEN Param(SubSeq(c, 2, Len(c) - 1))
    ELSE Literal(c)

\* C14: the segments of every registered pattern are, in order, its
\* non-empty components classified: Parameter(name) for a component written
\* `{name}` with a non-empty name, Literal(component) verbatim otherwise.
C14_SegmentClassification ==
    \A i \in 1..Len(routes) :
        LET parts == Pieces(routes[i]._path_pattern, <<>>)
        IN  routes[i].segments = [k \in 1..Len(parts) |-> Classified(parts[k])]

\* C15: an empty compiled pattern matches a path exactly when the path has
\* no non-empty component (`/`, the empty text, only slashes, or no path
\* given), and then captures nothing; a pattern with segments never matches
\* such a path. A dispatch of such a path therefore selects the first route
\* with an empty pattern, with an empty parameter mapping, or answers Not
\* Found.
C15_RootMatching ==
    \A d \in Dispatchers :
        event[d] # NoEvent =>
            LET parts == Pieces(PathOf(event[d]), <<>>)
                roots == { i \in 1..Len(routes) : routes[i].segments = <<>> }
            IN  /\ \A i \in 1..Len(routes) :
                      LET m == match_path(routes[i].segments, PathOf(event[d]))
                      IN  /\ i \in roots =>
                                /\ m.some <=> parts = <<>>
                                /\ m.some => m.val = EmptyMap
                          /\ (i \notin roots /\ parts = <<>>) => ~m.some
                /\ pc[d] = "invoking" =>
                      /\ idx[d] \in roots <=> parts = <<>>
                      /\ parts = <<>> =>
                            /\ idx[d] = Min(roots)
                            /\ request[d].val.path_params = EmptyMap
                /\ (pc[d] = "done" /\ parts = <<>>) =>
                      IF roots = {}
                      THEN out[d][1].kind = "NoPathMatch" /\ calls[d] = <<>>
                      ELSE out[d][1].kind = "Success" /\ calls[d] = << Min(roots) >>

\* A dispatch of `//` passed over a route with segments and was answered by
\* the route registered as `/`.
C15_Witness ==
    \E d \in Dispatchers :
        /\ pc[d] = "done"
        /\ event[d].path = Some(Chars("//"))
        /\ Len(routes) = 2
        /\ routes[1].segments # <<>>
        /\ routes[2]._path_pattern = Chars("/")
        /\ calls[d] = <<2>>
        /\ out[d][1].kind = "Success"

\* C16: a compiled pattern matches a path exactly when the path has as many
\* non-empty components as the pattern has segments and every Literal equals
\* the component at its position, case included; the mapping returned then
\* has the Parameter names as its keys and sends each Parameter name to the
\* component at its position. The Request of the selected route holds that
\* mapping.
C16_MatchCharacterized ==
    \A d \in Dispatchers :
        event[d] # NoEvent =>
            LET parts == Pieces(PathOf(event[d]), <<>>)
                Fits(segs) ==
                    /\ Len(parts) = Len(segs)
                    /\ \A k \in 1..Len(segs) :
                          segs[k].kind = "Literal" => segs[k].s = parts[k]
                Captures(segs, params) ==
                    /\ DOMAIN params = { segs[k].s : k \in { n \in 1..Len(segs) :
                                                               segs[n].kind = "Param" } }
                    /\ \A k \in 1..Len(segs) :
                          segs[k].kind = "Param" => params[segs[k].s] = parts[k]
            IN  /\ \A i \in 1..Len(routes) :
                      LET m == match_path(routes[i].segments, PathOf(event[d]))
                      IN  /\ m.some <=> Fits(routes[i].segments)
                          /\ m.some => Captures(routes[i].segments, m.val)
                /\ pc[d] = "invoking" =>
                      /\ Fits(routes[idx[d]].segments)
                      /\ Captures(routes[idx[d]].segments, request[d].val.path_params)
                /\ pc[d] = "done" =>
                      (out[d][1].kind = "NoPathMatch"
                           <=> \A i \in 1..Len(routes) : ~Fits(routes[i].segments))

\* The Response that the handler of a finished dispatch returned.
ResponseOf(d) == Invoke(routes[calls[d][1]].handler, request[d].val).val

\* The handler-supplied headers that are valid for the transport.
ValidHeaders(resp) ==
    { k \in DOMAIN resp.headers :
        HeaderName_from_bytes(k).some /\ HeaderValue_from_str(resp.headers[k]).some }

\* A header name as the envelope spells it.
Spelled(k) == [i \in 1..Len(k) |-> LowerChar(k[i])]

\* C17: when the selected handler returns a Response, the envelope has the
\* Response's status code and its body serialized to text, and its headers
\* are Content-Type: application/json overridden by the Response's own
\* headers: Content-Type is always present and every valid handler-supplied
\* header appears with its value.
C17_SuccessEncoding ==
    \A d \in Dispatchers :
        (pc[d] = "done" /\ out[d][1].kind = "Success") =>
            LET resp == ResponseOf(d)
                env == out[d][1].result.val
            IN  /\ out[d][1].result.ok
                /\ env.status_code = resp.status_code
                /\ env.body = Some(Text(to_string(resp.body)))
                /\ CONTENT_TYPE \in DOMAIN env.headers
                /\ DOMAIN env.headers =
                       {CONTENT_TYPE} \cup { Spelled(k) : k \in ValidHeaders(resp) }
                /\ \A k \in ValidHeaders(resp) : env.headers[Spelled(k)] = resp.headers[k]
                /\ (\A k \in ValidHeaders(resp) : Spelled(k) # CONTENT_TYPE)
                       => env.headers[CONTENT_TYPE] = APPLICATION_JSON

ErrorTexts == { "Not Found", "Method Not Allowed", "Internal Server Error: boom" }

\* A text that is a JSON object with the single string member `error`.
IsErrorObject(t) == \E e \in ErrorTexts : t = "{\"error\":\"" \o e \o "\"}"

\* C19: every envelope of an error path has the status of its path (404 for
\* Not-Found, 405 for Method-Not-Allowed, 500 for a handler failure), the
\* header Content-Type: application/json, and a body that is a JSON object
\* with the single string member `error`.
C19_ErrorEnvelopeShape ==
    \A d \in Dispatchers :
        (pc[d] = "done" /\ out[d][1].kind # "Success") =>
            LET env == out[d][1].result.val
            IN  /\ out[d][1].result.ok
                /\ env.status_code =
                       CASE out[d][1].kind = "NoPathMatch" -> 404
                         [] out[d][1].kind = "NoMethodMatch" -> 405
                         [] out[d][1].kind = "HandlerFailed" -> 500
                /\ CONTENT_TYPE \in DOMAIN env.headers
                /\ env.headers[CONTENT_TYPE] = Chars("application/json")
                /\ env.body.some
                /\ env.body.val.kind = "Text"
                /\ IsErrorObject(env.body.val.s)

\* The only route's handler failed and the dispatch ended with a 500.
C19_Witness ==
    \E d \in Dispatchers :
        /\ pc[d] = "done"
        /\ Len(routes) = 1
        /\ out[d][1].kind = "HandlerFailed"
        /\ out[d][1].result.val.status_code = 500
        /\ out[d][1].result.val.body.val.s = "{\"error\":\"Internal Server Error: boom\"}"

\* The inbound bodies that are valid JSON, with the documents they spell.
ValidJsonTexts == { "{\"name\":\"test-item\"}", "null", "\"hi\"" }
Spelt(t) ==
    CASE t = "null" -> JNull
      [] t = "\"hi\"" -> JString("hi")
      [] OTHER -> JObject(<< <<"name", JString("test-item")>> >>)

\* C20: the Request's structured body is present exactly when the inbound
\* raw body is present and is valid JSON, and is then the document the body
\* spells; in every case the raw body reaches the handler unchanged, the
\* handler of the selected route is invoked, and the outcome is the
\* handler's: for the handler that reads the body a 201 naming what it
\* found, `unknown` when there is no structured body.
C20_BodyParseFailureTolerated ==
    \A d \in Dispatchers :
        /\ request[d].some =>
              LET req == request[d].val
                  parses == event[d].body.some /\ event[d].body.val \in ValidJsonTexts
              IN  /\ req.json_body.some <=> parses
                  /\ parses => req.json_body.val = Spelt(event[d].body.val)
                  /\ req.body = event[d].body
        /\ pc[d] = "done" =>
              /\ calls[d] # <<>> <=> FullMatching(event[d]) # {}
              /\ calls[d] # <<>> =>
                    /\ request[d].some
                    /\ IF routes[calls[d][1]].handler = "received"
                       THEN /\ out[d][1].kind = "Success"
                            /\ out[d][1].result.val.status_code = 201
                            /\ out[d][1].result.val.body =
                                   Some(Text(
                                       IF event[d].body = Some("{\"name\":\"test-item\"}")
                                       THEN "{\"received\":\"test-item\"}"
                                       ELSE "{\"received\":\"unknown\"}"))
                       ELSE out[d][1].kind = "HandlerFailed"

\* A dispatch whose body is present and is not JSON ended with the 201 of
\* the handler, which found no structured body.
C20_Witness ==
    \E d \in Dispatchers :
        /\ pc[d] = "done"
        /\ event[d].body = Some("not json")
        /\ request[d].some
        /\ request[d].val.body = Some("not json")
        /\ ~request[d].val.json_body.some
        /\ out[d][1].kind = "Success"
        /\ out[d][1].result.val.status_code = 201

\* C21: the Request handed to the selected handler holds exactly the
\* parameters of the selected route's own pattern, each with the component
\* of the inbound path at its position; nothing captured from a route
\* passed over earlier is in it.
C21_OwnCapturesOnly ==
    \A d \in Dispatchers :
        request[d].some =>
            LET segs == routes[idx[d]].segments
                parts == Pieces(PathOf(event[d]), <<>>)
                own == { k \in 1..Len(segs) : segs[k].kind = "Param" }
            IN  /\ calls[d] = << idx[d] >>
                /\ idx[d] = Min(FullMatching(event[d]))
                /\ DOMAIN request[d].val.path_params = { segs[k].s : k \in own }
                /\ \A k \in own : request[d].val.path_params[segs[k].s] = parts[k]

\* /users/{a} for POST comes first, /users/{b} for GET second; GET /users/5
\* reached the second route with {b: "5"} alone.
C21_Witness ==
    \E d \in Dispatchers :
        /\ pc[d] = "invoking"
        /\ Len(routes) = 2
        /\ routes[1]._path_pattern = Chars("/users/{a}")
        /\ routes[1].methods = << Chars("POST") >>
        /\ routes[2]._path_pattern = Chars("/users/{b}")
        /\ event[d].http_method = Chars("GET")
        /\ event[d].path = Some(Chars("/users/5"))
        /\ idx[d] = 2
        /\ request[d].val.path_params = [n \in { Chars("b") } |-> Chars("5")]

\* C22: every dispatch that starts scanning eventually ends with one of the
\* four outcomes; while it runs, its position in the table never goes back
\* and advances by one route at a time, a handler is invoked only at the
\* first route matching path and method, and the dispatch ends there or
\* after the last route.
C22_DispatchTerminates ==
    /\ \A d \in Dispatchers :
          (pc[d] = "scanning") ~>
              (pc[d] = "done" /\ Len(out[d]) = 1 /\ out[d][1].kind \in Outcomes)
    /\ [](\A d \in Dispatchers :
              /\ pc[d] \in {"scanning", "invoking", "done"} =>
                    /\ idx[d] \in 1..(Len(routes) + 1)
                    /\ \A i \in FullMatching(event[d]) : idx[d] <= i
              /\ pc[d] = "invoking" => idx[d] \in FullMatching(event[d])
              /\ pc[d] = "done" =>
                    idx[d] = IF FullMatching(event[d]) # {}
                             THEN Min(FullMatching(event[d]))
                             ELSE Len(routes) + 1)
    /\ [][ \A d \in Dispatchers :
              pc[d] \in {"scanning", "invoking"} =>
                  /\ idx'[d] \in {idx[d], idx[d] + 1}
                  /\ pc'[d] \in {"scanning", "invoking", "done"}
                  /\ (pc[d] = "scanning" /\ pc'[d] = "scanning" /\ Locals(d)' # Locals(d))
                        => idx'[d] = idx[d] + 1 ]_vars

\* A dispatch has examined both routes of the table, neither of which
\* matched, and has ended.
C22_Witness ==
    \E d \in Dispatchers :
        /\ pc[d] = "done"
        /\ Len(routes) = 2
        /\ idx[d] = 3
        /\ out[d][1].kind \in {"NoMethodMatch", "NoPathMatch"}

\* C23: two inbound paths with the same non-empty components, however their
\* slashes are written, get the same match result and captures from every
\* route, the same Request parameters and the same answer; a captured value
\* is never empty and never holds a `/`; and `/users/` does not match
\* `/users/{a}`.
C23_PathsNormalized ==
    /\ \A d1, d2 \in Dispatchers :
          (event[d1] # NoEvent /\ event[d2] # NoEvent
               /\ Pieces(PathOf(event[d1]), <<>>) = Pieces(PathOf(event[d2]), <<>>)) =>
              /\ \A i \in 1..Len(routes) :
                    match_path(routes[i].segments, PathOf(event[d1]))
                        = match_path(routes[i].segments, PathOf(event[d2]))
              /\ (request[d1].some /\ request[d2].some) =>
                    request[d1].val.path_params = request[d2].val.path_params
              /\ (pc[d1] = "done" /\ pc[d2] = "done") => out[d1] = out[d2]
    /\ \A d \in Dispatchers :
          /\ request[d].some =>
                \A n \in DOMAIN request[d].val.path_params :
                    LET v == request[d].val.path_params[n]
                    IN  v # <<>> /\ \A k \in 1..Len(v) : v[k] # "/"
          /\ (event[d] # NoEvent /\ event[d].path = Some(Chars("/users/"))) =>
                \A i \in 1..Len(routes) :
                    routes[i]._path_pattern = Chars("/users/{a}") =>
                        ~match_path(routes[i].segments, PathOf(event[d])).some

\* `/users/42` and `//users//42` were both answered by /users/{a}, with the
\* same captured value and the same envelope.
C23_Witness ==
    /\ pc[1] = "done" /\ pc[2] = "done"
    /\ event[1].path = Some(Chars("/users/42"))
    /\ event[2].path = Some(Chars("//users//42"))
    /\ calls[1] # <<>>
    /\ request[1].some /\ request[2].some
    /\ routes[calls[1][1]]._path_pattern = Chars("/users/{a}")
    /\ request[1].val.path_params = [n \in { Chars("a") } |-> Chars("42")]
    /\ request[2].val.path_params = request[1].val.path_params
    /\ out[1] = out[2]
    /\ out[1][1].kind = "Success"


\* The steps of the current run that are about command c.
At(c) == { i \in 1..Len(issued) : issued[i].cmd = c }

\* The steps whose failure the code lets pass: lambda_exists turns it into
\* `false`, the two `if let Err(e)` blocks only warn.
Tolerated == {"get-function", "put-method", "remove-permission"}

\* Step i is a required step that returned an error.
Fatal(i) == issued[i].cmd \notin Tolerated /\ issued[i].outcome # "ok"

\* The place of a function in the deploy workflow.
StageOf(f) ==
    CASE f = "deploy" -> 0
      [] f = "package" -> 1
      [] f = "ensure_lambda" -> 2
      [] f = "ensure_api_gateway" -> 3
      [] f = "setup_proxy_integration" -> 4

\* The steps a function returns Ok after.
LastSteps(f) ==
    CASE f = "deploy" -> {"get_package_name"}
      [] f = "package" -> {"create_bootstrap_zip"}
      [] f = "ensure_lambda" -> {"update-function-configuration", "wait function-active-v2"}
      [] f = "ensure_api_gateway" -> {"get-rest-apis", "create-rest-api"}
      [] f = "setup_proxy_integration" -> {"create-deployment"}

\* C24: the deploy workflow is ordered and fail-stop.  The steps of
\* package, ensure_lambda, ensure_api_gateway and setup_proxy_integration
\* run in that order, each function starting right after the one before it
\* returned Ok; a required step that returns an error is the last step of
\* the run, after it the banner is not printed and the process exits with
\* status 1; the banner is printed only in a run of deploy in which no
\* required step failed and whose last step is a successful
\* create-deployment, and a process that exits with status 0 had no failed
\* required step.
C24_OrderedFailStop ==
    /\ \A i \in 1..Len(issued) :
        Fatal(i) =>
            /\ i = Len(issued)
            /\ ~cli.banner
            /\ cli.pc \in {"failed", "exited"}
            /\ cli.pc = "exited" => cli.exit = Some(1)
    /\ \A i \in 2..Len(issued) :
        LET before == issued[i - 1]
            now    == issued[i]
        IN  /\ StageOf(before.fn) <= StageOf(now.fn)
            /\ before.fn # now.fn =>
                /\ StageOf(now.fn) = StageOf(before.fn) + 1
                /\ before.cmd \in LastSteps(before.fn)
                /\ before.outcome = "ok"
    /\ issued # <<>> =>
        issued[1].fn = (IF cli.command = "deploy" THEN "deploy" ELSE "package")
    /\ cli.banner =>
        /\ cli.command = "deploy"
        /\ \A i \in 1..Len(issued) : ~Fatal(i)
        /\ issued # <<>>
        /\ issued[Len(issued)].cmd = "create-deployment"
        /\ issued[Len(issued)].outcome = "ok"
        /\ { StageOf(issued[i].fn) : i \in 1..Len(issued) } = 0..4
    /\ cli.pc = "exited" =>
        /\ cli.exit \in {Some(0), Some(1)}
        /\ cli.exit = Some(1) <=> (issued # <<>> /\ Fatal(Len(issued)))
        /\ cli.command = "deploy" => (cli.exit = Some(0) <=> cli.banner)

\* A deploy that got as far as the gateway, where create-rest-api failed:
\* it has exited with status 1 and printed no banner.
C24_Witness ==
    /\ cli.command = "deploy"
    /\ cli.pc = "exited"
    /\ cli.exit = Some(1)
    /\ ~cli.banner
    /\ issued # <<>>
    /\ issued[Len(issued)].cmd = "create-rest-api"
    /\ issued[Len(issued)].outcome = "err"

\* The gateway functions, which are handed the function ARN.
GatewaySteps ==
    { i \in 1..Len(issued) :
        issued[i].fn \in {"ensure_api_gateway", "setup_proxy_integration"} }

\* C25: create-or-update of the function.  A run issues at most one of
\* create-function and update-function-code, and exactly one once
\* ensure_lambda has returned; it is the step right after get-function,
\* update-function-code when get-function succeeded and create-function
\* when it failed; update-function-configuration is issued only right
\* after a successful wait function-updated-v2 that followed the
\* successful code update; and in the create path a gateway step runs
\* only after a successful wait function-active-v2.
C25_CreateOrUpdate ==
    /\ Cardinality(At("create-function") \cup At("update-function-code")) <= 1
    /\ GatewaySteps # {} =>
        Cardinality(At("create-function") \cup At("update-function-code")) = 1
    /\ Cardinality(At("get-function")) <= 1
    /\ \A i \in At("get-function") :
        i < Len(issued) =>
            issued[i + 1].cmd = (IF issued[i].outcome = "ok"
                                 THEN "update-function-code" ELSE "create-function")
    /\ \A i \in At("create-function") \cup At("update-function-code") :
        i > 1 /\ issued[i - 1].cmd = "get-function"
    /\ \A i \in At("update-function-configuration") :
        /\ i > 2
        /\ issued[i - 1].cmd = "wait function-updated-v2"
        /\ issued[i - 1].outcome = "ok"
        /\ issued[i - 2].cmd = "update-function-code"
        /\ issued[i - 2].outcome = "ok"
    /\ At("create-function") # {} =>
        \A i \in GatewaySteps :
            /\ cli.function_arn # ""
            /\ \E j \in At("wait function-active-v2") :
                /\ j < i
                /\ issued[j].outcome = "ok"
                /\ issued[j - 1].cmd = "create-function"
                /\ issued[j - 1].outcome = "ok"
    /\ At("update-function-code") # {} =>
        \A i \in GatewaySteps :
            /\ cli.function_arn # ""
            /\ \E j \in At("update-function-configuration") :
                j < i /\ issued[j].outcome = "ok"

\* A deploy onto an account that has the function: the code was updated,
\* the wait succeeded, the configuration was updated, and the deploy went
\* through.
C25_Witness ==
    /\ cli.banner
    /\ At("update-function-code") # {}
    /\ At("wait function-updated-v2") # {}
    /\ At("update-function-configuration") # {}
    /\ At("create-function") = {}

\* The REST APIs of the account that are named api_name, and the {proxy+}
\* resources of one REST API.
ProjectApis == { a \in 1..Len(cloud.apis) : cloud.apis[a].name = api_name }
ProxiesOf(a) ==
    { r \in 1..Len(cloud.apis[a].resources) :
        cloud.apis[a].resources[r].pathPart = "{proxy+}" }

\* C26: gateway resources are created only when absent.  create-rest-api
\* is issued only right after a get-rest-apis listing with no API named
\* api_name; after a listing with such an API the next step works on the
\* listed API's id; create-resource is issued only right after a
\* get-resources listing with no {proxy+} resource; and the account never
\* holds a second API named api_name nor a second {proxy+} resource in
\* one API, however often deploy is repeated.
C26_CreatedOnlyWhenAbsent ==
    /\ \A i \in At("create-rest-api") :
        /\ i > 1
        /\ issued[i - 1].cmd = "get-rest-apis"
        /\ issued[i - 1].outcome = "ok"
        /\ \A k \in 1..Len(issued[i - 1].resp) : issued[i - 1].resp[k].name # api_name
    /\ \A i \in At("get-rest-apis") :
        LET named == { k \in 1..Len(issued[i].resp) : issued[i].resp[k].name = api_name }
        IN  (issued[i].outcome = "ok" /\ named # {} /\ i < Len(issued)) =>
                /\ issued[i + 1].cmd = "get-resources"
                /\ issued[i + 1].arg \in { issued[i].resp[k].id : k \in named }
                /\ cli.api_id = issued[i + 1].arg
    /\ \A i \in At("create-resource") :
        /\ i > 1
        /\ issued[i - 1].cmd = "get-resources"
        /\ issued[i - 1].outcome = "ok"
        /\ \A k \in 1..Len(issued[i - 1].resp) : issued[i - 1].resp[k].pathPart # "{proxy+}"
    /\ Cardinality(ProjectApis) <= 1
    /\ \A a \in 1..Len(cloud.apis) : Cardinality(ProxiesOf(a)) <= 1

\* A successful deploy repeated: both runs deployed, the second found the
\* API and its {proxy+} resource in the listings, and the account holds
\* one API of the project with one {proxy+} resource.
C26_Witness ==
    /\ deploys = 2
    /\ cloud.deployments = 2
    /\ cli.banner
    /\ At("get-rest-apis") # {}
    /\ At("get-resources") # {}
    /\ At("create-rest-api") = {}
    /\ At("create-resource") = {}
    /\ Cardinality(ProjectApis) = 1
    /\ \A a \in ProjectApis : Cardinality(ProxiesOf(a)) = 1

\* C27: tolerated and fatal failures in setup_proxy_integration.  Whatever
\* put-method returned, the process goes on to put-integration for the same
\* resource, and whatever remove-permission returned it goes on to
\* add-permission; a failed put-integration, get-caller-identity or
\* add-permission is the last step of the run, which then fails; and
\* create-deployment is the last step of a run, issued right after a
\* successful add-permission and after a successful put-integration for
\* the root and for the {proxy+} resource.
C27_ToleratedAndFatal ==
    /\ \A i \in At("put-method") :
        IF i < Len(issued)
        THEN /\ issued[i + 1].cmd = "put-integration"
             /\ issued[i + 1].arg = issued[i].arg
        ELSE cli.pc = "put-integration"
    /\ \A i \in At("remove-permission") :
        IF i < Len(issued)
        THEN issued[i + 1].cmd = "add-permission"
        ELSE cli.pc = "add-permission"
    /\ \A i \in At("put-integration") \cup At("get-caller-identity") \cup At("add-permission") :
        issued[i].outcome # "ok" =>
            /\ i = Len(issued)
            /\ cli.pc \in {"failed", "exited"}
            /\ cli.pc = "exited" => cli.exit = Some(1)
    /\ \A i \in At("create-deployment") :
        /\ i = Len(issued)
        /\ i > 1
        /\ issued[i - 1].cmd = "add-permission"
        /\ issued[i - 1].outcome = "ok"
        /\ cli.root_id # cli.proxy_id
        /\ \A r \in {cli.root_id, cli.proxy_id} :
            \E j \in At("put-integration") :
                j < i /\ issued[j].arg = r /\ issued[j].outcome = "ok"

\* A deploy that went through although put-method failed with an error
\* other than a conflict and remove-permission failed too.
C27_Witness ==
    /\ cli.banner
    /\ \E i \in At("put-method") : issued[i].outcome = "other"
    /\ \E i \in At("put-method") : issued[i].outcome = "ConflictException"
    /\ \E i \in At("remove-permission") : issued[i].outcome = "other"
    /\ At("create-deployment") # {}

=============================================================================
